---- MODULE Spec2Model ----
(***************************************************************************)
(* A model of firebase_functions: options.py (option records, the merge    *)
(* with the global defaults, the manifest endpoint), pubsub.py (the        *)
(* Pub/Sub adaptor and its decorator) and private/util.py (the callable    *)
(* request checks).                                                        *)
(*                                                                         *)
(* Python values are tagged records, so that values of different Python    *)
(* types can be compared: None, the USE_DEFAULT Sentinel instance, str,    *)
(* int, bool, list, dict, enum members and dataclass instances.            *)
(***************************************************************************)
EXTENDS Integers, Sequences, FiniteSets, TLC

VARIABLES
  GLOBAL_OPTIONS,    \* options._GLOBAL_OPTIONS, the process-wide default record
  last_set_kwargs,   \* history: the keyword arguments of the last set_global_options call
  call,              \* the last operation invoked on the options layer, with its result
  funcs,             \* the functions decorated so far, each with its __firebase_endpoint__
  delivery,          \* the last run of the Pub/Sub adaptor _message_handler
  oncall             \* the last check of a callable request

vars == <<GLOBAL_OPTIONS, last_set_kwargs, call, funcs, delivery, oncall>>

-----------------------------------------------------------------------------
(* Python values *)

None == [t |-> "None"]

\* options.USE_DEFAULT: an instance of util.Sentinel
USE_DEFAULT == [t |-> "Sentinel"]

\* the class object util.Sentinel itself (what `x is _util.Sentinel` compares with)
SentinelClass == [t |-> "type", name |-> "Sentinel"]

PyStr(s) == [t |-> "str", s |-> s]

\* a str whose characters matter (strip, the `in` test): the sequence of its characters
PyChars(cs) == [t |-> "str", chars |-> cs]

PyInt(n) == [t |-> "int", n |-> n]

PyBool(b) == [t |-> "bool", b |-> b]

PyList(xs) == [t |-> "list", items |-> xs]

PyDict(d) == [t |-> "dict", d |-> d]

\* firebase_functions.params.SecretParam: a reference to a secret by name
SecretParam(n) == [t |-> "SecretParam", name |-> n]

VpcEgressSetting(v) == [t |-> "VpcEgressSetting", value |-> PyStr(v)]

IngressSetting(v) == [t |-> "IngressSetting", value |-> PyStr(v)]

CorsOptions(origins, methods) ==
  [t |-> "CorsOptions", cors_origins |-> origins, cors_methods |-> methods]

EmptyMap == [k \in {} |-> None]

\* {**a, **b}: the keys of both, b's value where both have the key
DictMerge(a, b) ==
  [k \in DOMAIN a \cup DOMAIN b |-> IF k \in DOMAIN b THEN b[k] ELSE a[k]]

RECURSIVE AsDictValue(_)
\* dataclasses.asdict's treatment of a field value: a nested dataclass becomes a
\* dict of its fields, lists and dicts are rebuilt element by element, anything
\* else is deep-copied (equal to the original)
AsDictValue(v) ==
  CASE v.t = "CorsOptions" ->
         PyDict("cors_origins" :> AsDictValue(v.cors_origins)
                @@ "cors_methods" :> AsDictValue(v.cors_methods))
    [] v.t = "list" -> PyList([i \in DOMAIN v.items |-> AsDictValue(v.items[i])])
    [] v.t = "dict" -> PyDict([k \in DOMAIN v.d |-> AsDictValue(v.d[k])])
    [] OTHER -> v

-----------------------------------------------------------------------------
(* Option records *)

BaseFields ==
  {"region", "memory", "timeout_sec", "min_instances", "max_instances",
   "concurrency", "cpu", "vpc_connector", "vpc_connector_egress_settings",
   "service_account", "ingress", "labels", "secrets"}

OptionClasses == {"RuntimeOptions", "PubSubOptions", "DatabaseOptions", "HttpsOptions"}

\* the fields a subclass adds to RuntimeOptions
OwnFields(cls) ==
  CASE cls = "PubSubOptions" -> {"retry", "topic"}
    [] cls = "DatabaseOptions" -> {"reference", "instance"}
    [] cls = "HttpsOptions" -> {"invoker", "cors"}
    [] OTHER -> {}

Fields(cls) == BaseFields \cup OwnFields(cls)

\* fields declared without a default: the constructor needs them
RequiredFields(cls) ==
  CASE cls = "PubSubOptions" -> {"topic"}
    [] cls = "DatabaseOptions" -> {"reference"}
    [] OTHER -> {}

\* cls(**kwargs) raises TypeError on a missing required or an unknown keyword
CanConstruct(cls, kwargs) ==
  /\ DOMAIN kwargs \subseteq Fields(cls)
  /\ RequiredFields(cls) \subseteq DOMAIN kwargs

\* cls(**kwargs): every field not given takes its declared default, None
Construct(cls, kwargs) ==
  [cls |-> cls,
   f |-> [k \in Fields(cls) |-> IF k \in DOMAIN kwargs THEN kwargs[k] ELSE None]]

\* dataclasses.asdict(record)
asdict(o) == [k \in DOMAIN o.f |-> AsDictValue(o.f[k])]

\* the parameter defaults of set_global_options: None for all but cpu
SetGlobalOptionsDefault(k) == IF k = "cpu" THEN PyStr("gcf_gen1") ELSE None

\* set_global_options(**kwargs): the new value of _GLOBAL_OPTIONS
set_global_options(kwargs) ==
  Construct("RuntimeOptions",
            [k \in BaseFields |->
               IF k \in DOMAIN kwargs THEN kwargs[k] ELSE SetGlobalOptionsDefault(k)])

\* a merge that lets the global value win wherever the global record sets one
RuntimeOptions_asdict_global_wins(self, G) ==
  LET provider_options == asdict(self)
      global_options == asdict(G)
  IN [k \in DOMAIN provider_options \cup DOMAIN global_options |->
        IF k \in DOMAIN global_options /\ global_options[k] # None
        THEN global_options[k]
        ELSE provider_options[k]]

\* RuntimeOptions._asdict_with_global_options, with G the current _GLOBAL_OPTIONS
RuntimeOptions_asdict_with_global_options(self, G) ==
  LET provider_options == asdict(self)
      global_options == asdict(G)
      merged_options == DictMerge(global_options, provider_options)
  IN [k \in DOMAIN merged_options |->
        IF /\ k \in DOMAIN provider_options
           /\ provider_options[k] = None
           /\ k \in DOMAIN global_options
        THEN global_options[k]
        ELSE merged_options[k]]

\* HttpsOptions._asdict_with_global_options: the merge, with "cors" deleted
HttpsOptions_asdict_with_global_options(self, G) ==
  LET merged_options == RuntimeOptions_asdict_with_global_options(self, G)
  IN [k \in DOMAIN merged_options \ {"cors"} |-> merged_options[k]]

\* self._asdict_with_global_options(), dispatched on the class of self
asdict_with_global_options(self, G) ==
  IF self.cls = "HttpsOptions"
  THEN HttpsOptions_asdict_with_global_options(self, G)
  ELSE RuntimeOptions_asdict_with_global_options(self, G)

-----------------------------------------------------------------------------
(* The manifest endpoint *)

\* convert_secret, the local function of RuntimeOptions._endpoint
convert_secret(secret) ==
  PyDict("key" :> (IF secret.t = "SecretParam" THEN PyStr(secret.name) ELSE secret))

\* the secretEnvironmentVariables value RuntimeOptions._endpoint computes
secret_envs(secrets) ==
  IF secrets # None
  THEN IF secrets.t = "list"
       THEN PyList([i \in DOMAIN secrets.items |-> convert_secret(secrets.items[i])])
       ELSE IF secrets = SentinelClass
            THEN secrets
            ELSE PyList(<<>>)
  ELSE PyList(<<>>)

\* the region value RuntimeOptions._endpoint computes
endpoint_region(region) ==
  IF region.t = "list"
  THEN region
  ELSE IF region # None THEN PyList(<<region>>) ELSE None

\* a vpc value that is built as soon as either vpc field is set
endpoint_vpc_from_either_field(vpc_connector, egress) ==
  IF vpc_connector # None \/ egress # None
  THEN IF egress # None
       THEN PyDict("connector" :> vpc_connector @@ "egressSettings" :> egress.value)
       ELSE PyDict("connector" :> vpc_connector)
  ELSE None

\* the vpc value RuntimeOptions._endpoint computes
endpoint_vpc(vpc_connector, egress) ==
  IF vpc_connector # None
  THEN IF egress # None
       THEN PyDict("connector" :> vpc_connector @@ "egressSettings" :> egress.value)
       ELSE PyDict("connector" :> vpc_connector)
  ELSE None

\* RuntimeOptions._endpoint(**kwargs), with G the current _GLOBAL_OPTIONS: the
\* ManifestEndpoint it returns, or the exception it raises
RuntimeOptions_endpoint(self, kwargs, G) ==
  IF "func_name" \notin DOMAIN kwargs
  THEN [status |-> "KeyError"]
  ELSE IF kwargs["func_name"] = None
  THEN [status |-> "AssertionError"]
  ELSE
    LET options_dict == asdict_with_global_options(self, G)
    IN IF ~CanConstruct(self.cls, options_dict)
       THEN [status |-> "TypeError"]
       ELSE
         LET options == Construct(self.cls, options_dict).f
         IN IF /\ options["vpc_connector"] # None
               /\ options["vpc_connector_egress_settings"] # None
               /\ "value" \notin DOMAIN options["vpc_connector_egress_settings"]
            THEN [status |-> "AttributeError"]
            ELSE
              [status |-> "ok",
               endpoint |->
                 [entryPoint |-> kwargs["func_name"],
                  region |-> endpoint_region(options["region"]),
                  availableMemoryMb |-> options["memory"],
                  labels |-> options["labels"],
                  maxInstances |-> options["max_instances"],
                  minInstances |-> options["min_instances"],
                  concurrency |-> options["concurrency"],
                  serviceAccountEmail |-> options["service_account"],
                  timeoutSeconds |-> options["timeout_sec"],
                  cpu |-> options["cpu"],
                  ingressSettings |-> options["ingress"],
                  secretEnvironmentVariables |-> secret_envs(options["secrets"]),
                  vpc |-> endpoint_vpc(options["vpc_connector"],
                                       options["vpc_connector_egress_settings"])]]

RECURSIVE lstrip(_, _)
\* cs with every leading c removed
lstrip(cs, c) == IF cs # <<>> /\ Head(cs) = c THEN lstrip(Tail(cs), c) ELSE cs

RECURSIVE rstrip(_, _)
\* cs with every trailing c removed
rstrip(cs, c) ==
  IF cs # <<>> /\ cs[Len(cs)] = c THEN rstrip(SubSeq(cs, 1, Len(cs) - 1), c) ELSE cs

\* str.strip(c) on the characters of a string
strip(cs, c) == rstrip(lstrip(cs, c), c)

\* `c in s` for a character c and the characters cs of s
contains(cs, c) == \E i \in DOMAIN cs : cs[i] = c

\* the instance filter value of DatabaseOptions._endpoint: "*" when instance is None
event_filter_instance(self) ==
  IF self.f["instance"] # None THEN self.f["instance"] ELSE PyChars(<<"*">>)

\* the instance filter placed by a test for the wildcard in the first character only
event_filters_prefix_test(self) ==
  IF Len(event_filter_instance(self).chars) > 0
     /\ event_filter_instance(self).chars[1] = "*"
  THEN EmptyMap
  ELSE "instance" :> event_filter_instance(self)

\* eventFilters of DatabaseOptions._endpoint
event_filters(self) ==
  IF contains(event_filter_instance(self).chars, "*")
  THEN EmptyMap
  ELSE "instance" :> event_filter_instance(self)

\* eventFilterPathPatterns of DatabaseOptions._endpoint
event_filters_path_patterns(self) ==
  LET ref == "ref" :> PyChars(strip(self.f["reference"].chars, "/"))
  IN IF contains(event_filter_instance(self).chars, "*")
     THEN ref @@ "instance" :> event_filter_instance(self)
     ELSE ref

\* DatabaseOptions._endpoint(**kwargs): RuntimeOptions._endpoint's entry as a dict,
\* with the eventTrigger block added
DatabaseOptions_endpoint(self, kwargs, G) ==
  IF "event_type" \notin DOMAIN kwargs
  THEN [status |-> "KeyError"]
  ELSE IF kwargs["event_type"] = None
  THEN [status |-> "AssertionError"]
  ELSE
    LET event_trigger ==
          [eventType |-> kwargs["event_type"],
           retry |-> PyBool(FALSE),
           eventFilters |-> event_filters(self),
           eventFilterPathPatterns |-> event_filters_path_patterns(self)]
        base == RuntimeOptions_endpoint(self, kwargs, G)
    IN IF base.status # "ok"
       THEN base
       ELSE [status |-> "ok",
             endpoint |-> DictMerge(base.endpoint, "eventTrigger" :> event_trigger)]

\* self._endpoint(**kwargs), dispatched on the class of self: only DatabaseOptions
\* overrides RuntimeOptions._endpoint
options_endpoint(self, kwargs, G) ==
  IF self.cls = "DatabaseOptions"
  THEN DatabaseOptions_endpoint(self, kwargs, G)
  ELSE RuntimeOptions_endpoint(self, kwargs, G)

-----------------------------------------------------------------------------
(* The inputs the operations are tried on *)

\* the explicit values a caller may give each base field (annotations of
\* RuntimeOptions); None, the value of a field that is not set, is not among them
FieldValues(k) ==
  CASE k = "region" ->
         {PyStr("us-central1"),
          PyList(<<PyStr("us-central1"), PyStr("europe-west1")>>)}
    [] k = "memory" -> {PyInt(512), USE_DEFAULT}
    [] k = "timeout_sec" -> {PyInt(60)}
    [] k = "min_instances" -> {PyInt(0)}
    [] k = "max_instances" -> {USE_DEFAULT}
    [] k = "concurrency" -> {PyInt(80)}
    [] k = "cpu" -> {PyInt(2), PyStr("gcf_gen1"), USE_DEFAULT}
    [] k = "vpc_connector" -> {PyStr("connector-a")}
    [] k = "vpc_connector_egress_settings" -> {VpcEgressSetting("ALL_TRAFFIC")}
    [] k = "service_account" -> {PyStr("sa@example.com")}
    [] k = "ingress" -> {IngressSetting("ALLOW_ALL"), USE_DEFAULT}
    [] k = "labels" -> {PyDict("team" :> PyStr("core"))}
    [] k = "secrets" ->
         {PyList(<<>>),
          PyList(<<PyStr("API_KEY"), SecretParam("DB_PASS")>>),
          USE_DEFAULT}

\* keyword arguments that give one base field
SingleKwargs ==
  {k :> v : <<k, v>> \in UNION {{<<f, w>> : w \in FieldValues(f)} : f \in BaseFields}}

\* keyword arguments that give both fields of a pair of base fields
PairKwargs(k1, k2) ==
  {(k1 :> v) @@ (k2 :> w) : <<v, w>> \in FieldValues(k1) \X FieldValues(k2)}

\* the keyword arguments set_global_options is called with
GlobalKwargs ==
  {EmptyMap} \cup SingleKwargs
  \cup PairKwargs("vpc_connector", "vpc_connector_egress_settings")

\* the base-field keyword arguments of a per-function record
BaseKwargs ==
  GlobalKwargs \cup PairKwargs("memory", "secrets")

\* the base-field keyword arguments tried on the classes other than PubSubOptions
FewBaseKwargs ==
  {EmptyMap, "memory" :> PyInt(512), "secrets" :> USE_DEFAULT}

\* the per-function option records the operations are tried on
OptionRecords ==
  {Construct("PubSubOptions", kw @@ ("topic" :> PyStr("orders"))) : kw \in BaseKwargs}
  \cup {Construct("PubSubOptions", ("topic" :> PyStr("orders")) @@ ("retry" :> PyBool(TRUE)))}
  \cup {Construct("RuntimeOptions", kw) : kw \in FewBaseKwargs}
  \cup {Construct("DatabaseOptions", kw @@ ("reference" :> PyChars(<<"/", "a", "/">>)))
          : kw \in FewBaseKwargs}
  \cup {Construct("DatabaseOptions",
                  kw @@ ("reference" :> PyChars(<<"a">>))
                     @@ ("instance" :> PyChars(<<"p", "*">>))) : kw \in FewBaseKwargs}
  \cup {Construct("HttpsOptions", kw) : kw \in FewBaseKwargs}
  \cup {Construct("HttpsOptions",
                  kw @@ ("cors" :> CorsOptions(PyStr("*"), None))
                     @@ ("invoker" :> PyStr("public"))) : kw \in FewBaseKwargs}

\* the keyword arguments _endpoint is called with
EndpointKwargs ==
  {EmptyMap,
   "func_name" :> None,
   "func_name" :> PyStr("handler"),
   ("func_name" :> PyStr("handler")) @@ ("event_type" :> PyStr("database.written"))}

-----------------------------------------------------------------------------
(* The options layer as a state machine *)

NoCall == [op |-> "none"]

\* the module as loaded: _GLOBAL_OPTIONS = RuntimeOptions(), nothing decorated,
\* nothing delivered
Init ==
  /\ GLOBAL_OPTIONS = Construct("RuntimeOptions", EmptyMap)
  /\ last_set_kwargs = [called |-> FALSE, kwargs |-> EmptyMap]
  /\ call = NoCall
  /\ funcs = <<>>
  /\ delivery = [status |-> "none"]
  /\ oncall = [op |-> "none"]

\* a set_global_options that also rebuilds the endpoint attached to every
\* decorated function from the new global record
SetGlobalOptions_rebuilding_endpoints(kwargs) ==
  /\ GLOBAL_OPTIONS' = set_global_options(kwargs)
  /\ last_set_kwargs' = [called |-> TRUE, kwargs |-> kwargs]
  /\ call' = [op |-> "set_global_options"]
  /\ funcs' = [i \in DOMAIN funcs |->
                 [funcs[i] EXCEPT !.endpoint =
                    options_endpoint(funcs[i].options,
                                     "func_name" :> funcs[i].name,
                                     set_global_options(kwargs)).endpoint]]
  /\ UNCHANGED <<delivery, oncall>>

\* set_global_options(**kwargs)
SetGlobalOptions(kwargs) ==
  /\ GLOBAL_OPTIONS' = set_global_options(kwargs)
  /\ last_set_kwargs' = [called |-> TRUE, kwargs |-> kwargs]
  /\ call' = [op |-> "set_global_options"]
  /\ UNCHANGED <<funcs, delivery, oncall>>

\* RuntimeOptions._asdict_with_global_options(self), on a record of any class
Merge(self) ==
  /\ call' = [op |-> "RuntimeOptions._asdict_with_global_options",
              self |-> self,
              result |-> RuntimeOptions_asdict_with_global_options(self, GLOBAL_OPTIONS)]
  /\ UNCHANGED <<GLOBAL_OPTIONS, last_set_kwargs, funcs, delivery, oncall>>

\* self._endpoint(**kwargs)
Endpoint(self, kwargs) ==
  /\ call' = [op |-> "_endpoint",
              self |-> self,
              kwargs |-> kwargs,
              result |-> options_endpoint(self, kwargs, GLOBAL_OPTIONS)]
  /\ UNCHANGED <<GLOBAL_OPTIONS, last_set_kwargs, funcs, delivery, oncall>>

NextOptions ==
  \/ \E kwargs \in GlobalKwargs : SetGlobalOptions(kwargs)
  \/ \E self \in OptionRecords : Merge(self)
  \/ \E self \in OptionRecords, kwargs \in EndpointKwargs : Endpoint(self, kwargs)

SpecOptions == Init /\ [][NextOptions]_vars

-----------------------------------------------------------------------------
(* Database triggers: the endpoint over references and instances of every shape *)

\* the longest reference strings tried
MaxRefLen == 3

\* the longest instance strings tried
MaxInstLen == 2

\* the strings of at most n characters over an alphabet
Strings(alphabet, n) == UNION {[1..k -> alphabet] : k \in 0..n}

\* DatabaseOptions records: a reference of "/" and "a", and no instance or an
\* instance of "p" and "*"
DatabaseRecords ==
  {Construct("DatabaseOptions", "reference" :> PyChars(r)) :
     r \in Strings({"/", "a"}, MaxRefLen)}
  \cup {Construct("DatabaseOptions",
                  ("reference" :> PyChars(r)) @@ ("instance" :> PyChars(i))) :
          <<r, i>> \in Strings({"/", "a"}, MaxRefLen) \X Strings({"p", "*"}, MaxInstLen)}

\* the keyword arguments the database decorators and a careless caller give _endpoint
DatabaseEndpointKwargs ==
  {("func_name" :> PyStr("handler")) @@ ("event_type" :> PyStr("database.written")),
   "func_name" :> PyStr("handler")}

NextDatabase ==
  \/ \E kwargs \in {EmptyMap, "memory" :> PyInt(512)} : SetGlobalOptions(kwargs)
  \/ \E self \in DatabaseRecords, kwargs \in DatabaseEndpointKwargs :
       Endpoint(self, kwargs)

SpecDatabase == Init /\ [][NextDatabase]_vars

-----------------------------------------------------------------------------
(* Decoration: on_message_published attaches the endpoint to the function *)

\* the number of functions decorated in one run
MaxFuncs == 2

\* the names of the decorated functions (func.__name__)
FuncNames == {PyStr("on_order"), PyStr("on_refund")}

\* the keyword arguments on_message_published is called with
DecoratorKwargs ==
  {"topic" :> PyStr("orders"),
   ("topic" :> PyStr("orders")) @@ ("memory" :> PyInt(512)),
   ("topic" :> PyStr("orders")) @@ ("secrets" :> PyList(<<PyStr("API_KEY")>>))}

\* the keyword arguments set_global_options is called with around decorations
DeployGlobalKwargs ==
  {EmptyMap, "memory" :> PyInt(512), "region" :> PyStr("us-central1")}

\* @on_message_published(**kwargs) applied to a function named name:
\* options = PubSubOptions(**kwargs); the wrapped function gets
\* __firebase_endpoint__ = options._endpoint(func_name=name), computed now.
\* global_at_decoration is history: the global record in force at this moment.
on_message_published(kwargs, name) ==
  /\ Len(funcs) < MaxFuncs
  /\ CanConstruct("PubSubOptions", kwargs)
  /\ LET options == Construct("PubSubOptions", kwargs)
         built == options_endpoint(options, "func_name" :> name, GLOBAL_OPTIONS)
     IN /\ built.status = "ok"
        /\ funcs' = Append(funcs, [name |-> name,
                                   options |-> options,
                                   endpoint |-> built.endpoint,
                                   global_at_decoration |-> GLOBAL_OPTIONS])
  /\ call' = [op |-> "on_message_published"]
  /\ UNCHANGED <<GLOBAL_OPTIONS, last_set_kwargs, delivery, oncall>>

NextDeploy ==
  \/ \E kwargs \in DeployGlobalKwargs : SetGlobalOptions(kwargs)
  \/ \E kwargs \in DecoratorKwargs, name \in FuncNames : on_message_published(kwargs, name)

SpecDeploy == Init /\ [][NextDeploy]_vars

-----------------------------------------------------------------------------
(* Claims about the options layer *)

\* the last operation was RuntimeOptions._asdict_with_global_options
MergeCalled == call.op = "RuntimeOptions._asdict_with_global_options"

\* the last operation was an _endpoint call that returned a manifest entry
EndpointBuilt == call.op = "_endpoint" /\ call.result.status = "ok"

\* C1: the merge resolves every base field on its own: the per-function record's
\* value when it sets the field (a value or the USE_DEFAULT sentinel, kept as the
\* sentinel), the global record's value (absent included) when it leaves the field
\* absent; the trigger's own fields, which the global record lacks, come out with
\* the per-function record's value (in the dict form dataclasses.asdict gives it).
C1_MergeResolvesEachField ==
  MergeCalled =>
    /\ DOMAIN call.result = DOMAIN call.self.f
    /\ \A k \in BaseFields :
         call.result[k] = IF call.self.f[k] # None
                          THEN call.self.f[k]
                          ELSE GLOBAL_OPTIONS.f[k]
    /\ \A k \in DOMAIN call.self.f \ BaseFields :
         call.result[k] = AsDictValue(call.self.f[k])

\* C1 witness: one merge in which the record resets a field the global record sets
\* to a value, leaves absent another field the global record sets, and carries a
\* field of its own
C1_Witness ==
  /\ MergeCalled
  /\ \E k \in BaseFields :
       /\ call.self.f[k] = USE_DEFAULT
       /\ GLOBAL_OPTIONS.f[k] \notin {None, USE_DEFAULT}
  /\ \E k \in BaseFields : call.self.f[k] = None /\ GLOBAL_OPTIONS.f[k] # None
  /\ \E k \in BaseFields : call.self.f[k] = None /\ GLOBAL_OPTIONS.f[k] = None
  /\ \E k \in DOMAIN call.self.f \ BaseFields : call.self.f[k] # None

\* C2: after set_global_options calls, _GLOBAL_OPTIONS holds, field by field, what
\* the last call was given, and None for every field the last call did not give.
C2_GlobalIsLastCallOnly ==
  last_set_kwargs.called =>
    \A k \in BaseFields :
      GLOBAL_OPTIONS.f[k] = IF k \in DOMAIN last_set_kwargs.kwargs
                            THEN last_set_kwargs.kwargs[k]
                            ELSE None

\* the secrets value _endpoint works on: the per-function record's merged with
\* the global record's
ResolvedSecrets == asdict_with_global_options(call.self, GLOBAL_OPTIONS)["secrets"]

\* C3: a resolved secrets value of USE_DEFAULT reaches the manifest entry as the
\* sentinel (not as an empty list, not absent), and a resolved list becomes a list
\* of {key: name} mappings, a SecretParam giving its name.
C3_SecretsInManifest ==
  EndpointBuilt =>
    /\ ResolvedSecrets = USE_DEFAULT =>
         call.result.endpoint.secretEnvironmentVariables = USE_DEFAULT
    /\ ResolvedSecrets.t = "list" =>
         /\ call.result.endpoint.secretEnvironmentVariables.t = "list"
         /\ LET envs == call.result.endpoint.secretEnvironmentVariables.items
            IN /\ Len(envs) = Len(ResolvedSecrets.items)
               /\ \A i \in DOMAIN envs :
                    envs[i] = PyDict("key" :>
                      (IF ResolvedSecrets.items[i].t = "SecretParam"
                       THEN PyStr(ResolvedSecrets.items[i].name)
                       ELSE ResolvedSecrets.items[i]))

\* C4: the manifest entry of every event-triggered record, DatabaseOptions and
\* PubSubOptions alike, has an eventTrigger block with the event type, a retry
\* flag and the two filter mappings.
C4_EventTriggerBlock ==
  (EndpointBuilt /\ call.self.cls \in {"DatabaseOptions", "PubSubOptions"}) =>
    /\ "eventTrigger" \in DOMAIN call.result.endpoint
    /\ {"eventType", "retry", "eventFilters", "eventFilterPathPatterns"}
         \subseteq DOMAIN call.result.endpoint.eventTrigger
    /\ "event_type" \in DOMAIN call.kwargs
    /\ call.result.endpoint.eventTrigger.eventType = call.kwargs["event_type"]

\* the characters of the instance filter: "*" stands for an instance that is None
InstanceChars ==
  IF call.self.f["instance"] = None THEN <<"*">> ELSE call.self.f["instance"].chars

\* r is cs without its leading and trailing "/" characters
IsStripped(r, cs) ==
  /\ r = <<>> \/ (r[1] # "/" /\ r[Len(r)] # "/")
  /\ \E i \in 0..Len(cs) :
       /\ i + Len(r) <= Len(cs)
       /\ SubSeq(cs, i + 1, i + Len(r)) = r
       /\ \A j \in 1..Len(cs) : (j <= i \/ j > i + Len(r)) => cs[j] = "/"

\* C5: DatabaseOptions._endpoint puts "instance" in exactly one filter mapping, the
\* path patterns when the instance (None read as "*") contains "*", the exact
\* filters otherwise; "ref", the reference without its leading and trailing "/",
\* is always in the path patterns and never in the exact filters.
C5_DatabaseFilters ==
  (EndpointBuilt /\ call.self.cls = "DatabaseOptions") =>
    LET trigger == call.result.endpoint.eventTrigger
        exact == trigger.eventFilters
        patterns == trigger.eventFilterPathPatterns
        wildcard == \E i \in DOMAIN InstanceChars : InstanceChars[i] = "*"
    IN /\ ("instance" \in DOMAIN exact) # ("instance" \in DOMAIN patterns)
       /\ ("instance" \in DOMAIN patterns) = wildcard
       /\ wildcard => patterns["instance"] = PyChars(InstanceChars)
       /\ ~wildcard => exact["instance"] = PyChars(InstanceChars)
       /\ "ref" \in DOMAIN patterns
       /\ "ref" \notin DOMAIN exact
       /\ IsStripped(patterns["ref"].chars, call.self.f["reference"].chars)

\* C5 witness: an entry built for an instance with the wildcard after its first
\* character and a reference with "/" at both ends and inside
C5_Witness ==
  /\ EndpointBuilt
  /\ call.self.cls = "DatabaseOptions"
  /\ call.self.f["instance"] = PyChars(<<"p", "*">>)
  /\ call.self.f["reference"] = PyChars(<<"/", "a", "/">>)
  /\ call.result.endpoint.eventTrigger.eventFilterPathPatterns["ref"] = PyChars(<<"a">>)

\* the manifest entry on_message_published computes for funcs[i] under the global
\* record G
EntryUnder(i, G) ==
  options_endpoint(funcs[i].options, "func_name" :> funcs[i].name, G).endpoint

\* C10: the endpoint of a decorated function is merged lazily: whenever the
\* manifest is read, each function's entry is the one its options give under the
\* global record then in force, later set_global_options calls included.
C10_MergedAtManifestBuild ==
  \A i \in DOMAIN funcs : funcs[i].endpoint = EntryUnder(i, GLOBAL_OPTIONS)

\* C10 as amended: the entry attached to a decorated function is the one its
\* options give under the global record in force when it was decorated, and stays
\* so whatever set_global_options is called with afterwards.
C10_MergedAtDecoration ==
  \A i \in DOMAIN funcs :
    funcs[i].endpoint = EntryUnder(i, funcs[i].global_at_decoration)

\* C10 witness: a decorated function whose attached entry differs from the one the
\* global record now in force would give
C10_Witness ==
  \E i \in DOMAIN funcs :
    /\ funcs[i].global_at_decoration # GLOBAL_OPTIONS
    /\ funcs[i].endpoint # EntryUnder(i, GLOBAL_OPTIONS)

-----------------------------------------------------------------------------
(* The Pub/Sub adaptor *)

\* A timestamp string is the sequence of its lexical pieces, e.g.
\* <<"2022-01-01", "T", "00:00:00", ".", "000000", "+00:00">>.
\* %Y-%m-%d: the date pieces strptime accepts, with the date each denotes
DateOf ==
  "2022-01-01" :> <<2022, 1, 1>> @@ "2022-12-31" :> <<2022, 12, 31>>

\* %H:%M:%S: the time pieces strptime accepts, with the seconds since midnight
TimeOf == "00:00:00" :> 0 @@ "23:59:59" :> 86399

\* %f: one to six digits, read as a fraction of a second, in microseconds
MicrosecondOf == "000000" :> 0 @@ "5" :> 500000 @@ "500000" :> 500000

\* %z: +HHMM, +HH:MM and Z, with the offset from UTC in minutes
UtcOffsetOf == "+0000" :> 0 @@ "+00:00" :> 0 @@ "Z" :> 0 @@ "+0530" :> 330

\* a datetime value
datetime(date, seconds, microsecond, utcoffset) ==
  [t |-> "datetime", date |-> date, seconds |-> seconds,
   microsecond |-> microsecond, utcoffset |-> utcoffset]

\* a strptime whose format makes the fraction optional
strptime_optional_fraction(v) ==
  IF v.t # "str"
  THEN [ok |-> FALSE, error |-> "TypeError"]
  ELSE LET p == v.chars
       IN IF /\ Len(p) \in {4, 6}
             /\ p[1] \in DOMAIN DateOf
             /\ p[2] = "T"
             /\ p[3] \in DOMAIN TimeOf
             /\ Len(p) = 6 => (p[4] = "." /\ p[5] \in DOMAIN MicrosecondOf)
             /\ p[Len(p)] \in DOMAIN UtcOffsetOf
          THEN [ok |-> TRUE,
                value |-> datetime(DateOf[p[1]], TimeOf[p[3]],
                                   IF Len(p) = 6 THEN MicrosecondOf[p[5]] ELSE 0,
                                   UtcOffsetOf[p[Len(p)]])]
          ELSE [ok |-> FALSE, error |-> "ValueError"]

\* datetime.strptime(v, "%Y-%m-%dT%H:%M:%S.%f%z"): the datetime, or the error
\* raised (TypeError when v is not a str, ValueError when it does not match)
strptime(v) ==
  IF v.t # "str"
  THEN [ok |-> FALSE, error |-> "TypeError"]
  ELSE LET p == v.chars
       IN IF /\ Len(p) = 6
             /\ p[1] \in DOMAIN DateOf
             /\ p[2] = "T"
             /\ p[3] \in DOMAIN TimeOf
             /\ p[4] = "."
             /\ p[5] \in DOMAIN MicrosecondOf
             /\ p[6] \in DOMAIN UtcOffsetOf
          THEN [ok |-> TRUE,
                value |-> datetime(DateOf[p[1]], TimeOf[p[3]],
                                   MicrosecondOf[p[5]], UtcOffsetOf[p[6]])]
          ELSE [ok |-> FALSE, error |-> "ValueError"]

\* base64.b64decode(data).decode("utf-8") on the payloads tried: the text, for
\* the payloads that are base64
Base64Text == "eyJ4IjoxfQ==" :> "{\"x\":1}" @@ "aGVsbG8=" :> "hello"

\* json.loads on the texts tried: the value, for the texts that are JSON
JsonValue == "{\"x\":1}" :> PyDict("x" :> PyInt(1))

\* Message.json: the parsed payload, None for no payload, or ValueError
Message_json(message) ==
  IF message["data"] = None
  THEN [ok |-> TRUE, value |-> None]
  ELSE IF /\ message["data"].t = "str"
          /\ message["data"].s \in DOMAIN Base64Text
          /\ Base64Text[message["data"].s] \in DOMAIN JsonValue
       THEN [ok |-> TRUE, value |-> JsonValue[Base64Text[message["data"].s]]]
       ELSE [ok |-> FALSE, error |-> "ValueError"]

\* the fields of the Message dataclass
MessageFields == {"message_id", "publish_time", "attributes", "data", "ordering_key"}

\* Message(**message_dict, ordering_key=...) raises TypeError on an unknown
\* keyword, on a second ordering_key and on a missing field (none has a default)
CanConstructMessage(message_dict) ==
  /\ DOMAIN message_dict \subseteq MessageFields \ {"ordering_key"}
  /\ MessageFields \ {"ordering_key"} \subseteq DOMAIN message_dict

\* dict without the keys in ks (pop(k, None) for each)
Without(d, ks) == [k \in DOMAIN d \ ks |-> d[k]]

\* a rewrite of the message mapping that leaves the wire's attributes key alone
adapted_message_dict_no_default(message_dict, publish_time) ==
  Without([message_dict EXCEPT !["publish_time"] = publish_time],
          {"messageId", "publishTime", "orderingKey"})

\* the message mapping as _message_handler leaves it (lines 119-131): publish_time
\* parsed, the camelCase keys popped, attributes defaulted to {}
adapted_message_dict(message_dict, publish_time) ==
  LET popped == Without([message_dict EXCEPT !["publish_time"] = publish_time],
                        {"messageId", "publishTime", "orderingKey"})
  IN IF "attributes" \in DOMAIN popped
     THEN popped
     ELSE popped @@ ("attributes" :> PyDict(EmptyMap))

\* the result of a run that raised error before the handler was called, leaving
\* the raw event as raw
Raised(error, raw) ==
  [status |-> "raised", error |-> error, raw |-> raw, calls |-> 0]

\* _message_handler(func, raw). raw is the CloudEvent object: its attributes and
\* its data, which the adaptor rewrites in place. reads_json says whether func
\* reads event.data.message.json. The result carries raw as the run leaves it,
\* the number of calls of func, and the event func was given.
message_handler(raw, reads_json) ==
  IF raw.data.t # "dict" THEN Raised("TypeError", raw)
  ELSE IF "message" \notin DOMAIN raw.data.d THEN Raised("KeyError", raw)
  ELSE IF "time" \notin DOMAIN raw.attributes THEN Raised("KeyError", raw)
  ELSE IF ~strptime(raw.attributes["time"]).ok
       THEN Raised(strptime(raw.attributes["time"]).error, raw)
  ELSE IF "publish_time" \notin DOMAIN raw.data.d["message"] THEN Raised("KeyError", raw)
  ELSE IF ~strptime(raw.data.d["message"]["publish_time"]).ok
       THEN Raised(strptime(raw.data.d["message"]["publish_time"]).error, raw)
  ELSE
    LET message_dict == raw.data.d["message"]
        ordering_key == IF "orderingKey" \in DOMAIN message_dict
                        THEN message_dict["orderingKey"]
                        ELSE None
        rewritten == adapted_message_dict(message_dict,
                                          strptime(message_dict["publish_time"]).value)
        raw_after == [raw EXCEPT !.data.d["message"] = rewritten]
    IN IF ~CanConstructMessage(rewritten) THEN Raised("TypeError", raw_after)
       ELSE IF "subscription" \notin DOMAIN raw.data.d THEN Raised("KeyError", raw_after)
       ELSE IF ~({"id", "source", "specversion", "type"} \subseteq DOMAIN raw.attributes)
            THEN Raised("KeyError", raw_after)
       ELSE
         LET message == rewritten @@ ("ordering_key" :> ordering_key)
             event ==
               [data |-> [message |-> message,
                          subscription |-> raw.data.d["subscription"]],
                id |-> raw.attributes["id"],
                source |-> raw.attributes["source"],
                specversion |-> raw.attributes["specversion"],
                subject |-> IF "subject" \in DOMAIN raw.attributes
                            THEN raw.attributes["subject"]
                            ELSE None,
                time |-> strptime(raw.attributes["time"]).value,
                type |-> raw.attributes["type"]]
         IN IF reads_json /\ ~Message_json(message).ok
            THEN [status |-> "raised", error |-> "ValueError", raw |-> raw_after,
                  calls |-> 1, event |-> event, raised_in |-> "Message.json"]
            ELSE [status |-> "returned", raw |-> raw_after,
                  calls |-> 1, event |-> event]

-----------------------------------------------------------------------------
(* The envelopes the adaptor is tried on *)

\* timestamp strings that match the format
GoodTimes ==
  {PyChars(<<"2022-01-01", "T", "00:00:00", ".", "000000", "+00:00">>),
   PyChars(<<"2022-12-31", "T", "23:59:59", ".", "5", "Z">>),
   PyChars(<<"2022-01-01", "T", "00:00:00", ".", "500000", "+0530">>)}

\* timestamp strings that do not: no fraction, a month 13, no UTC offset, a
\* space for the T
BadTimes ==
  {PyChars(<<"2022-01-01", "T", "00:00:00", "+0000">>),
   PyChars(<<"2022-13-01", "T", "00:00:00", ".", "000000", "+0000">>),
   PyChars(<<"2022-01-01", "T", "00:00:00", ".", "000000">>),
   PyChars(<<"2022-01-01", " ", "00:00:00", ".", "000000", "+0000">>)}

\* payloads: base64 of {"x":1}, base64 of the text hello, and text that is not base64
GoodPayload == PyStr("eyJ4IjoxfQ==")

BadPayloads == {PyStr("aGVsbG8="), PyStr("not-json!")}

GoodTime == PyChars(<<"2022-01-01", "T", "00:00:00", ".", "000000", "+00:00">>)

\* the attributes of a delivered CloudEvent
GoodAttributes ==
  [id |-> PyStr("e1"), source |-> PyStr("//pubsub.googleapis.com/projects/p/topics/orders"),
   specversion |-> PyStr("1.0"), type |-> PyStr("google.cloud.pubsub.topic.v1.messagePublished"),
   time |-> GoodTime, subject |-> PyStr("orders")]

AttributesTried ==
  {GoodAttributes,
   Without(GoodAttributes, {"subject"}),
   Without(GoodAttributes, {"time"}),
   Without(GoodAttributes, {"id"})}
  \cup {[GoodAttributes EXCEPT !.time = ts] : ts \in GoodTimes \cup BadTimes}

\* the message's keys that the wire always carries
CoreMessage ==
  [message_id |-> PyStr("m1"), publish_time |-> GoodTime, data |-> GoodPayload]

\* the message's keys that the wire may carry: attributes, orderingKey, and the
\* camelCase aliases
OptionalMessageParts ==
  {EmptyMap,
   "attributes" :> PyDict("origin" :> PyStr("web")),
   "orderingKey" :> PyStr("k1"),
   ("messageId" :> PyStr("m1")) @@ ("publishTime" :> GoodTime),
   ("attributes" :> PyDict(EmptyMap)) @@ ("orderingKey" :> PyStr("k1"))
     @@ ("messageId" :> PyStr("alias-of-m1")) @@ ("publishTime" :> PyStr("alias"))}

CoreMessagesTried ==
  {CoreMessage,
   Without(CoreMessage, {"message_id"}),
   Without(CoreMessage, {"publish_time"}),
   Without(CoreMessage, {"data"}),
   CoreMessage @@ ("extra" :> PyStr("x")),
   [CoreMessage EXCEPT !.data = None]}
  \cup {[CoreMessage EXCEPT !.publish_time = ts] : ts \in GoodTimes \cup BadTimes}
  \cup {[CoreMessage EXCEPT !.data = payload] : payload \in BadPayloads}

MessagesTried ==
  {core @@ opt : <<core, opt>> \in CoreMessagesTried \X OptionalMessageParts}

GoodSubscription == PyStr("projects/p/subscriptions/s")

\* the raw events: any attributes with a usual message, the usual attributes with
\* any message, data without one of its keys, no data, and two faults at once
RawEvents ==
  {[attributes |-> attrs,
    data |-> PyDict(("message" :> CoreMessage) @@ ("subscription" :> GoodSubscription))]
     : attrs \in AttributesTried}
  \cup {[attributes |-> GoodAttributes,
         data |-> PyDict(("message" :> m) @@ ("subscription" :> GoodSubscription))]
          : m \in MessagesTried}
  \cup {[attributes |-> GoodAttributes, data |-> PyDict("message" :> CoreMessage)],
        [attributes |-> GoodAttributes, data |-> PyDict("subscription" :> GoodSubscription)],
        [attributes |-> GoodAttributes, data |-> None]}
  \cup {[attributes |-> [GoodAttributes EXCEPT !.time = ts],
         data |-> PyDict(("message" :> [CoreMessage EXCEPT !.data = payload])
                         @@ ("subscription" :> GoodSubscription))]
          : <<ts, payload>> \in BadTimes \X BadPayloads}
  \cup {[attributes |-> GoodAttributes,
         data |-> PyDict("message" :> [CoreMessage EXCEPT !.data = payload])]
          : payload \in BadPayloads}

-----------------------------------------------------------------------------
(* The adaptor as a state machine *)

\* the number of times one raw event object is handed to the adaptor
MaxRuns == 2

\* the platform delivers a raw event: wire is history, the event as it arrived
Receive(raw) ==
  /\ delivery' = [status |-> "received", wire |-> raw, raw |-> raw, runs |-> 0]
  /\ UNCHANGED <<GLOBAL_OPTIONS, last_set_kwargs, call, funcs, oncall>>

\* on_message_published_wrapped(raw): _message_handler(func, raw) on the delivered
\* object; input is history, the object as this run found it
MessageHandler(reads_json) ==
  /\ delivery.status # "none"
  /\ delivery.runs < MaxRuns
  /\ delivery' = message_handler(delivery.raw, reads_json)
                   @@ [wire |-> delivery.wire,
                       input |-> delivery.raw,
                       reads_json |-> reads_json,
                       runs |-> delivery.runs + 1]
  /\ UNCHANGED <<GLOBAL_OPTIONS, last_set_kwargs, call, funcs, oncall>>

NextPubSub ==
  \/ \E raw \in RawEvents : Receive(raw)
  \/ \E reads_json \in BOOLEAN : MessageHandler(reads_json)

SpecPubSub == Init /\ [][NextPubSub]_vars

-----------------------------------------------------------------------------
(* Callable requests *)

\* A header value is the sequence of its lexical pieces, e.g.
\* <<"application/json", ";", " ", "charset=utf-8">>.
Whitespace == {" ", "\t"}

RECURSIVE lstrip_whitespace(_)
lstrip_whitespace(cs) ==
  IF cs # <<>> /\ Head(cs) \in Whitespace THEN lstrip_whitespace(Tail(cs)) ELSE cs

RECURSIVE rstrip_whitespace(_)
rstrip_whitespace(cs) ==
  IF cs # <<>> /\ cs[Len(cs)] \in Whitespace
  THEN rstrip_whitespace(SubSeq(cs, 1, Len(cs) - 1))
  ELSE cs

\* str.strip()
strip_whitespace(cs) == rstrip_whitespace(lstrip_whitespace(cs))

\* str.lower() on one piece
LowerPiece(c) ==
  IF c \in {"APPLICATION/JSON", "Application/Json"} THEN "application/json" ELSE c

\* str.lower()
lower(cs) == [i \in DOMAIN cs |-> LowerPiece(cs[i])]

\* str.index(c): the place of the first c (the caller has checked there is one)
index(cs, c) == CHOOSE i \in DOMAIN cs : cs[i] = c /\ \A j \in 1..(i - 1) : cs[j] # c

\* _on_call_valid_method
on_call_valid_method(request) == request.method = "POST"

\* _on_call_valid_content_type
on_call_valid_content_type(request) ==
  IF "Content-Type" \notin DOMAIN request.headers
  THEN FALSE
  ELSE LET content_type == request.headers["Content-Type"]
           content_type_cut ==
             IF contains(content_type, ";")
             THEN strip_whitespace(SubSeq(content_type, 1, index(content_type, ";") - 1))
             ELSE content_type
       IN lower(content_type_cut) = <<"application/json">>

\* `"data" in request.json` for the JSON values tried: a key of a dict, an element
\* of a list
data_in(json) ==
  CASE json.t = "dict" -> "data" \in DOMAIN json.d
    [] json.t = "list" -> \E i \in DOMAIN json.items : json.items[i] = PyStr("data")
    [] OTHER -> FALSE

\* a body check that looks for data and nothing else
on_call_valid_body_data_only(request) ==
  IF request.body = [t |-> "unparsable"]
  THEN [status |-> "raised", error |-> "BadRequest"]
  ELSE IF request.body = None
  THEN [status |-> "returned", value |-> FALSE]
  ELSE IF request.body.t \notin {"dict", "list"}
  THEN [status |-> "raised", error |-> "TypeError"]
  ELSE [status |-> "returned", value |-> data_in(request.body)]

\* _on_call_valid_body; request.json raises BadRequest for a body that does not
\* parse, and is None for the body null
on_call_valid_body(request) ==
  IF request.body = [t |-> "unparsable"]
  THEN [status |-> "raised", error |-> "BadRequest"]
  ELSE IF request.body = None
  THEN [status |-> "returned", value |-> FALSE]
  ELSE IF request.body.t \notin {"dict", "list"}
  THEN [status |-> "raised", error |-> "TypeError"]
  ELSE IF ~data_in(request.body)
  THEN [status |-> "returned", value |-> FALSE]
  ELSE IF request.body.t # "dict"
  THEN [status |-> "raised", error |-> "AttributeError"]
  ELSE [status |-> "returned", value |-> DOMAIN request.body.d \ {"data"} = {}]

\* valid_on_call_request: the three checks, each run only if the one before passed
valid_on_call_request(request) ==
  IF on_call_valid_method(request) /\ on_call_valid_content_type(request)
  THEN on_call_valid_body(request)
  ELSE [status |-> "returned", value |-> FALSE]

\* OnCallTokenState
MISSING == [t |-> "OnCallTokenState", value |-> "MISSING"]

VALID == [t |-> "OnCallTokenState", value |-> "VALID"]

INVALID == [t |-> "OnCallTokenState", value |-> "INVALID"]

\* _on_call_check_auth_token; verified is what auth.verify_id_token does with the
\* token: it returns claims or raises
on_call_check_auth_token(request, verified) ==
  IF "Authorization" \notin DOMAIN request.headers
  THEN None
  ELSE IF ~(request.headers["Authorization"] # <<>>
            /\ Head(request.headers["Authorization"]) = "Bearer ")
  THEN INVALID
  ELSE IF verified.raises THEN INVALID ELSE verified.claims

\* _on_call_check_app_token; verified is what app_check.verify_token does
on_call_check_app_token(request, verified) ==
  IF "X-Firebase-AppCheck" \notin DOMAIN request.headers
  THEN None
  ELSE IF verified.raises THEN INVALID ELSE verified.claims

\* a check that gives up on the identity token once the app token is rejected
on_call_check_tokens_short_circuit(request, auth_verified, app_verified) ==
  LET auth_token == on_call_check_auth_token(request, auth_verified)
      app_token == on_call_check_app_token(request, app_verified)
      app == IF app_token = None THEN MISSING
             ELSE IF app_token.t = "dict" THEN VALID ELSE INVALID
      auth == IF app = INVALID THEN INVALID
              ELSE IF auth_token = None THEN MISSING
              ELSE IF auth_token.t = "dict" THEN VALID ELSE INVALID
  IN [status |-> "returned",
      verifications |->
        [app |-> app,
         app_token |-> IF app = VALID THEN app_token ELSE None,
         auth |-> auth,
         auth_token |-> IF auth = VALID THEN auth_token ELSE None],
      log |-> IF app # INVALID /\ auth # INVALID THEN "info" ELSE "warning"]

\* on_call_check_tokens: the verdict returned and the level of the log record
on_call_check_tokens(request, auth_verified, app_verified) ==
  LET auth_token == on_call_check_auth_token(request, auth_verified)
      app_token == on_call_check_app_token(request, app_verified)
      auth == IF auth_token = None THEN MISSING
              ELSE IF auth_token.t = "dict" THEN VALID ELSE INVALID
      app == IF app_token = None THEN MISSING
             ELSE IF app_token.t = "dict" THEN VALID ELSE INVALID
  IN [status |-> "returned",
      verifications |->
        [app |-> app,
         app_token |-> IF app_token # None /\ app_token.t = "dict" THEN app_token ELSE None,
         auth |-> auth,
         auth_token |-> IF auth_token # None /\ auth_token.t = "dict"
                        THEN auth_token ELSE None],
      log |-> IF app # INVALID /\ auth # INVALID THEN "info" ELSE "warning"]

-----------------------------------------------------------------------------
(* The requests tried, and the checks as a state machine *)

\* the longest Content-Type value tried, in pieces
MaxContentTypeLen == 3

ContentTypePieces ==
  {"application/json", "APPLICATION/JSON", "text/plain", ";", " ", "charset=utf-8"}

\* the JSON bodies tried; [t |-> "unparsable"] is a body that is not JSON
BodiesTried ==
  {[t |-> "unparsable"],
   None,
   PyDict(EmptyMap),
   PyDict("data" :> PyDict("n" :> PyInt(1))),
   PyDict("data" :> None),
   PyDict(("data" :> PyDict(EmptyMap)) @@ ("extra" :> PyInt(1))),
   PyDict("extra" :> PyInt(1)),
   PyList(<<PyStr("data")>>),
   PyList(<<>>),
   PyInt(5)}

GoodBody == PyDict("data" :> PyDict("n" :> PyInt(1)))

\* requests for the shape check: any Content-Type on a good POST, and any method
\* and body under a usual Content-Type or none
ShapeRequests ==
  {[method |-> "POST", headers |-> "Content-Type" :> ct, body |-> GoodBody]
     : ct \in Strings(ContentTypePieces, MaxContentTypeLen)}
  \cup {[method |-> m, headers |-> "Content-Type" :> ct, body |-> b]
          : <<m, ct, b>> \in {"POST", "GET"}
                             \X {<<"application/json">>,
                                 <<"application/json", " ", ";", "charset=utf-8">>}
                             \X BodiesTried}
  \cup {[method |-> "POST", headers |-> EmptyMap, body |-> GoodBody]}

\* the header sets for the token check
TokenHeaders ==
  {auth @@ app :
     <<auth, app>> \in
       {EmptyMap,
        "Authorization" :> <<"Bearer ", "tokenA">>,
        "Authorization" :> <<"tokenA">>,
        "Authorization" :> <<"bearer ", "tokenA">>,
        "Authorization" :> <<>>}
       \X {EmptyMap, "X-Firebase-AppCheck" :> <<"tokenB">>}}

\* what an external verifier does with a token: raise, or return claims
VerifierOutcomes ==
  {[raises |-> TRUE],
   [raises |-> FALSE, claims |-> PyDict(EmptyMap)],
   [raises |-> FALSE, claims |-> PyDict("uid" :> PyStr("u1"))]}

\* valid_on_call_request(request)
ValidOnCallRequest(request) ==
  /\ oncall' = [op |-> "valid_on_call_request",
                request |-> request,
                result |-> valid_on_call_request(request)]
  /\ UNCHANGED <<GLOBAL_OPTIONS, last_set_kwargs, call, funcs, delivery>>

\* on_call_check_tokens(request), with what the two verifiers do
OnCallCheckTokens(request, auth_verified, app_verified) ==
  /\ oncall' = [op |-> "on_call_check_tokens",
                request |-> request,
                auth_verified |-> auth_verified,
                app_verified |-> app_verified,
                result |-> on_call_check_tokens(request, auth_verified, app_verified)]
  /\ UNCHANGED <<GLOBAL_OPTIONS, last_set_kwargs, call, funcs, delivery>>

NextOnCall ==
  \/ \E request \in ShapeRequests : ValidOnCallRequest(request)
  \/ \E headers \in TokenHeaders, auth_verified \in VerifierOutcomes,
        app_verified \in VerifierOutcomes :
       OnCallCheckTokens([method |-> "POST", headers |-> headers, body |-> GoodBody],
                         auth_verified, app_verified)

SpecOnCall == Init /\ [][NextOnCall]_vars

-----------------------------------------------------------------------------
(* Claims about the Pub/Sub adaptor *)

\* the adaptor has run on the delivered event
AdaptorRan == delivery.status \in {"returned", "raised"}

\* the message mapping of the event the run was given, when it has one
InputHasMessage ==
  /\ delivery.input.data.t = "dict"
  /\ "message" \in DOMAIN delivery.input.data.d

InputMessage == delivery.input.data.d["message"]

\* the event's time or the message's publish_time is a string that does not match
\* the timestamp format
MalformedTimestamp ==
  \/ /\ "time" \in DOMAIN delivery.input.attributes
     /\ delivery.input.attributes["time"] \in BadTimes
  \/ /\ InputHasMessage
     /\ "publish_time" \in DOMAIN InputMessage
     /\ InputMessage["publish_time"] \in BadTimes

\* a field the adaptor needs is not there
LacksRequiredField ==
  \/ ~({"id", "source", "specversion", "type", "time"}
         \subseteq DOMAIN delivery.input.attributes)
  \/ ~InputHasMessage
  \/ "subscription" \notin DOMAIN delivery.input.data.d
  \/ ~({"message_id", "publish_time", "data"} \subseteq DOMAIN InputMessage)

\* the payload is not base64-encoded JSON
PayloadNotJson ==
  /\ InputHasMessage
  /\ "data" \in DOMAIN InputMessage
  /\ InputMessage["data"] \in BadPayloads

\* every required field is there, both timestamps match the format, and the
\* message has no key but the wire's
WellFormedInput ==
  /\ ~LacksRequiredField
  /\ delivery.input.attributes["time"] \in GoodTimes
  /\ InputMessage["publish_time"] \in GoodTimes
  /\ DOMAIN InputMessage \subseteq
       {"message_id", "publish_time", "data", "attributes",
        "messageId", "publishTime", "orderingKey"}

\* the handler got a complete typed event: metadata, subscription, parsed times,
\* and a message with exactly the Message fields
FullyConstructedEvent ==
  /\ "event" \in DOMAIN delivery
  /\ DOMAIN delivery.event.data.message = MessageFields
  /\ delivery.event.data.message["publish_time"].t = "datetime"
  /\ delivery.event.time.t = "datetime"
  /\ delivery.event.data.subscription = delivery.input.data.d["subscription"]
  /\ \A k \in {"id", "source", "specversion", "type"} :
       delivery.event[k] = delivery.input.attributes[k]

\* C6: a malformed timestamp, a missing required field or a payload that is not
\* base64 JSON makes the adaptor fail with the handler never invoked; and when the
\* handler is invoked it is invoked once, with a fully constructed event.
C6_FailsBeforeHandler ==
  AdaptorRan =>
    /\ (MalformedTimestamp \/ LacksRequiredField \/ PayloadNotJson) =>
         (delivery.status = "raised" /\ delivery.calls = 0)
    /\ delivery.calls > 0 => (delivery.calls = 1 /\ FullyConstructedEvent)

\* C6 as amended: a malformed timestamp or a missing required field makes the
\* adaptor fail with the handler never invoked. A payload that is not base64 JSON
\* does not: on an otherwise well-formed event the handler is invoked, and the
\* payload error is raised only when the handler reads message.json. When the
\* handler is invoked it is invoked once, with a fully constructed event.
C6_TimestampAndFieldsCheckedBeforeHandler ==
  AdaptorRan =>
    /\ (MalformedTimestamp \/ LacksRequiredField) =>
         (delivery.status = "raised" /\ delivery.calls = 0)
    /\ (WellFormedInput /\ PayloadNotJson) =>
         /\ delivery.calls = 1
         /\ (delivery.status = "raised") = delivery.reads_json
         /\ delivery.status = "raised" => delivery.raised_in = "Message.json"
    /\ delivery.calls > 0 => (delivery.calls = 1 /\ FullyConstructedEvent)

\* C6 witness: the handler ran to its end on an event whose payload is not base64
\* JSON
C6_Witness ==
  /\ AdaptorRan
  /\ WellFormedInput
  /\ PayloadNotJson
  /\ delivery.status = "returned"
  /\ delivery.calls = 1

\* the datetime each well-formed timestamp tried denotes
ExpectedDatetime(ts) ==
  CASE ts = PyChars(<<"2022-01-01", "T", "00:00:00", ".", "000000", "+00:00">>) ->
         datetime(<<2022, 1, 1>>, 0, 0, 0)
    [] ts = PyChars(<<"2022-12-31", "T", "23:59:59", ".", "5", "Z">>) ->
         datetime(<<2022, 12, 31>>, 86399, 500000, 0)
    [] ts = PyChars(<<"2022-01-01", "T", "00:00:00", ".", "500000", "+0530">>) ->
         datetime(<<2022, 1, 1>>, 0, 500000, 330)

\* C7: for a well-formed event the handler's message has no messageId or
\* publishTime, takes message_id and publish_time from the snake_case wire fields,
\* has ordering_key equal to the wire's orderingKey (None without one) and
\* attributes equal to the wire's, or {} when the wire has none.
C7_MessageFromWire ==
  (AdaptorRan /\ WellFormedInput) =>
    /\ delivery.calls = 1
    /\ LET message == delivery.event.data.message
       IN /\ DOMAIN message = MessageFields
          /\ message["message_id"] = InputMessage["message_id"]
          /\ message["publish_time"] = ExpectedDatetime(InputMessage["publish_time"])
          /\ message["data"] = InputMessage["data"]
          /\ message["ordering_key"] = IF "orderingKey" \in DOMAIN InputMessage
                                       THEN InputMessage["orderingKey"]
                                       ELSE None
          /\ message["attributes"] = IF "attributes" \in DOMAIN InputMessage
                                     THEN InputMessage["attributes"]
                                     ELSE PyDict(EmptyMap)

\* C7 witness: a well-formed event without attributes and without orderingKey,
\* with the camelCase aliases, has been adapted
C7_Witness ==
  /\ AdaptorRan
  /\ WellFormedInput
  /\ "attributes" \notin DOMAIN InputMessage
  /\ "orderingKey" \notin DOMAIN InputMessage
  /\ "messageId" \in DOMAIN InputMessage
  /\ delivery.event.data.message["attributes"] = PyDict(EmptyMap)

-----------------------------------------------------------------------------
(* Claims about callable requests *)

TokensChecked == oncall.op = "on_call_check_tokens"

ShapeChecked == oncall.op = "valid_on_call_request"

\* the state the claim gives a token: from its header and what its verifier does
ClaimedState(header, needs_bearer, verified) ==
  IF header \notin DOMAIN oncall.request.headers
  THEN MISSING
  ELSE IF /\ needs_bearer
          /\ \/ oncall.request.headers[header] = <<>>
             \/ oncall.request.headers[header][1] # "Bearer "
  THEN INVALID
  ELSE IF verified.raises THEN INVALID ELSE VALID

\* C8: on_call_check_tokens returns a verdict whatever the headers and the
\* verifiers do; each token's state follows from its own header and verifier
\* alone (MISSING without the header, VALID with the claims when verification
\* succeeds, INVALID when it raises or the identity token lacks "Bearer "); a
\* claim set is there only with VALID.
C8_TokenVerdict ==
  TokensChecked =>
    LET v == oncall.result.verifications
    IN /\ oncall.result.status = "returned"
       /\ v.auth = ClaimedState("Authorization", TRUE, oncall.auth_verified)
       /\ v.app = ClaimedState("X-Firebase-AppCheck", FALSE, oncall.app_verified)
       /\ v.auth = VALID => v.auth_token = oncall.auth_verified.claims
       /\ v.app = VALID => v.app_token = oncall.app_verified.claims
       /\ v.auth # VALID => v.auth_token = None
       /\ v.app # VALID => v.app_token = None

\* C8 witness: a rejected app token beside a verified identity token
C8_Witness ==
  /\ TokensChecked
  /\ oncall.result.verifications.app = INVALID
  /\ oncall.result.verifications.auth = VALID
  /\ oncall.result.verifications.auth_token = PyDict("uid" :> PyStr("u1"))

\* the Content-Type value up to its first ";", or all of it without one
BeforeSemicolon(ct) ==
  IF \E i \in DOMAIN ct : ct[i] = ";"
  THEN SubSeq(ct, 1, (CHOOSE i \in DOMAIN ct :
                        ct[i] = ";" /\ \A j \in 1..(i - 1) : ct[j] # ";") - 1)
  ELSE ct

\* cs is "application/json" in some casing
IsApplicationJson(cs) ==
  Len(cs) = 1 /\ cs[1] \in {"application/json", "APPLICATION/JSON", "Application/Json"}

\* cs without the whitespace at its ends
Trimmed(cs) ==
  LET inner == {i \in DOMAIN cs : cs[i] \notin Whitespace}
  IN IF inner = {}
     THEN <<>>
     ELSE SubSeq(cs, CHOOSE i \in inner : \A j \in inner : i <= j,
                     CHOOSE i \in inner : \A j \in inner : i >= j)

\* the request returned true
AcceptedShape == oncall.result.status = "returned" /\ oncall.result.value

\* the method and body conditions of the claim
PostWithOnlyData ==
  /\ oncall.request.method = "POST"
  /\ oncall.request.body # [t |-> "unparsable"]
  /\ oncall.request.body.t = "dict"
  /\ DOMAIN oncall.request.body.d = {"data"}

\* C9: valid_on_call_request is true only for a POST whose Content-Type, cut at
\* its first ";", equals application/json ignoring case, and whose body parses as
\* JSON with the top-level key data and no other.
C9_ValidOnlyIf ==
  (ShapeChecked /\ AcceptedShape) =>
    /\ PostWithOnlyData
    /\ "Content-Type" \in DOMAIN oncall.request.headers
    /\ IsApplicationJson(BeforeSemicolon(oncall.request.headers["Content-Type"]))

\* C9 as amended: ... whose Content-Type, cut at its first ";" and, when it has a
\* ";", with the whitespace around what is left removed, equals application/json
\* ignoring case ...
C9_ValidOnlyIfTrimmed ==
  (ShapeChecked /\ AcceptedShape) =>
    /\ PostWithOnlyData
    /\ "Content-Type" \in DOMAIN oncall.request.headers
    /\ LET ct == oncall.request.headers["Content-Type"]
       IN IF \E i \in DOMAIN ct : ct[i] = ";"
          THEN IsApplicationJson(Trimmed(BeforeSemicolon(ct)))
          ELSE IsApplicationJson(ct)

\* C9 witness: a request accepted with a space between application/json and ";"
C9_Witness ==
  /\ ShapeChecked
  /\ AcceptedShape
  /\ oncall.request.headers["Content-Type"] = <<"APPLICATION/JSON", " ", ";">>

-----------------------------------------------------------------------------
(* Claims about the arguments and the vpc object of RuntimeOptions._endpoint *)

\* the last operation was RuntimeOptions._endpoint itself (DatabaseOptions
\* overrides it), called without a func_name: omitted, or passed as None
EndpointWithoutFuncName ==
  /\ call.op = "_endpoint"
  /\ call.self.cls # "DatabaseOptions"
  /\ \/ "func_name" \notin DOMAIN call.kwargs
     \/ call.kwargs["func_name"] = None

\* C12: RuntimeOptions._endpoint fails with an assertion error and builds no
\* manifest entry whenever func_name is not provided: omitted from the call, or
\* passed as None.
C12_AssertionWithoutFuncName ==
  EndpointWithoutFuncName => call.result.status = "AssertionError"

\* the fields _endpoint works on: the per-function record's merged with the
\* global record's
Resolved == asdict_with_global_options(call.self, GLOBAL_OPTIONS)

\* C13: the manifest entry has a vpc object if and only if the resolved
\* vpc_connector is set; the object holds that connector, and holds an
\* egressSettings value (the setting's value) if and only if the resolved
\* vpc_connector_egress_settings is set; an egress setting without a connector
\* gives no vpc object.
C13_VpcIffConnector ==
  EndpointBuilt =>
    LET vpc == call.result.endpoint.vpc
        connector == Resolved["vpc_connector"]
        egress == Resolved["vpc_connector_egress_settings"]
    IN /\ vpc # None <=> connector # None
       /\ vpc # None =>
            /\ vpc.t = "dict"
            /\ vpc.d["connector"] = connector
            /\ "egressSettings" \in DOMAIN vpc.d <=> egress # None
            /\ egress # None => vpc.d["egressSettings"] = egress.value
            /\ DOMAIN vpc.d \subseteq {"connector", "egressSettings"}

\* C13 witness: an entry built with a connector from the per-function record
\* and an egress setting from the global record
C13_Witness ==
  /\ EndpointBuilt
  /\ Resolved["vpc_connector"] # None
  /\ Resolved["vpc_connector_egress_settings"] # None
  /\ call.self.f["vpc_connector"] # None
  /\ call.self.f["vpc_connector_egress_settings"] = None
  /\ DOMAIN call.result.endpoint.vpc.d = {"connector", "egressSettings"}

\* an entry built from an egress setting without a connector
C13_EgressAlone ==
  /\ EndpointBuilt
  /\ Resolved["vpc_connector"] = None
  /\ Resolved["vpc_connector_egress_settings"] # None

-----------------------------------------------------------------------------
(* Claims about the adaptor's effect on the raw event *)

\* what the adaptor does with the raw event as it arrived, on a fresh object
FirstRun == message_handler(delivery.wire, FALSE)

\* C15: _message_handler leaves the raw event (its attributes, its data and the
\* message mapping nested in it) unchanged, so a second run on the same raw event
\* object, whose first run called the handler, calls the handler again, with an
\* event equal to the first one.
C15_AdaptorLeavesRawUnchanged ==
  AdaptorRan =>
    /\ delivery.raw = delivery.input
    /\ (delivery.runs = 2 /\ FirstRun.calls = 1) =>
         /\ delivery.calls = 1
         /\ delivery.event = FirstRun.event

-----------------------------------------------------------------------------
(* prune_nones *)

\* A dict whose iteration order matters is the sequence of its entries in
\* insertion order, each entry a key k and a value v.
OrderedDict(items) == [t |-> "dict", items |-> items]

\* del obj[key], for the key of the entry at position pos
DelItem(items, pos) == SubSeq(items, 1, pos - 1) \o SubSeq(items, pos + 1, Len(items))

RECURSIVE prune_nones_loop(_, _, _)
\* the loop "for key in obj" of prune_nones from the iterator's position pos on,
\* the iterator having been created when obj had di_used entries. The dict
\* iterator raises RuntimeError (dictionary changed size during iteration) when
\* it is advanced after the size of the dict has changed. The result carries obj
\* as the loop leaves it: prune_nones works on obj, and on the dicts nested in it,
\* in place.
prune_nones_loop(items, di_used, pos) ==
  IF Len(items) # di_used
  THEN [status |-> "RuntimeError", obj |-> OrderedDict(items)]
  ELSE IF pos > Len(items)
  THEN [status |-> "returned", obj |-> OrderedDict(items)]
  ELSE IF items[pos].v = None
  THEN prune_nones_loop(DelItem(items, pos), di_used, pos + 1)
  ELSE IF items[pos].v.t = "dict"
  THEN LET nested == prune_nones_loop(items[pos].v.items, Len(items[pos].v.items), 1)
           after == [items EXCEPT ![pos].v = nested.obj]
       IN IF nested.status # "returned"
          THEN [status |-> nested.status, obj |-> OrderedDict(after)]
          ELSE prune_nones_loop(after, di_used, pos + 1)
  ELSE prune_nones_loop(items, di_used, pos + 1)

\* prune_nones(obj): what it returns or raises, and obj as it leaves it
prune_nones(obj) == prune_nones_loop(obj.items, Len(obj.items), 1)

\* the number of keys of a mapping
MaxPruneKeys == 2

\* the nesting depth of mappings
MaxPruneDepth == 2

\* the keys of the mappings, the first MaxPruneKeys of them
PruneKeys == {<<"region", "labels", "vpc", "cpu">>[i] : i \in 1..MaxPruneKeys}

\* the values that are not mappings: absent, the reset sentinel, a number
PruneLeaves == {None, USE_DEFAULT, PyInt(1)}

\* the mappings whose keys are distinct keys of PruneKeys, in any insertion
\* order, and whose values are in values
MappingsOver(values) ==
  {OrderedDict([i \in DOMAIN ks |-> [k |-> ks[i], v |-> vs[i]]]) :
     <<ks, vs>> \in UNION {{<<ks, vs>> \in [1..n -> PruneKeys] \X [1..n -> values] :
                               \A i, j \in 1..n : i # j => ks[i] # ks[j]}
                             : n \in 0..MaxPruneKeys}}

RECURSIVE Mappings(_)
\* the mappings nested at most depth deep
Mappings(depth) ==
  IF depth = 1
  THEN MappingsOver(PruneLeaves)
  ELSE MappingsOver(PruneLeaves \cup Mappings(depth - 1))

\* prune_nones(obj)
PruneNones(obj) ==
  /\ call' = [op |-> "prune_nones", obj |-> obj, result |-> prune_nones(obj)]
  /\ UNCHANGED <<GLOBAL_OPTIONS, last_set_kwargs, funcs, delivery, oncall>>

NextPrune == \E obj \in Mappings(MaxPruneDepth) : PruneNones(obj)

SpecPrune == Init /\ [][NextPrune]_vars

RECURSIVE WithoutNones(_)
\* the mapping with the keys whose value is None removed at every depth
WithoutNones(obj) ==
  LET kept == SelectSeq(obj.items, LAMBDA e : e.v # None)
  IN OrderedDict([i \in DOMAIN kept |->
                    [k |-> kept[i].k,
                     v |-> IF kept[i].v.t = "dict"
                           THEN WithoutNones(kept[i].v)
                           ELSE kept[i].v]])

\* C14: for every mapping, with any number of None values in any key positions
\* and at any depth, prune_nones completes without error and returns the mapping
\* with exactly the None-valued keys removed at every depth, every other entry,
\* USE_DEFAULT values included, unchanged.
C14_PrunesNonesAtEveryDepth ==
  call.op = "prune_nones" =>
    /\ call.result.status = "returned"
    /\ call.result.obj = WithoutNones(call.obj)

\* what prune_nones does do: it returns, with the mapping unchanged, exactly when
\* the mapping has no None value at any depth; otherwise it raises RuntimeError
PruneNonesReturnsOnlyWithoutNones ==
  call.op = "prune_nones" =>
    IF call.obj = WithoutNones(call.obj)
    THEN call.result = [status |-> "returned", obj |-> call.obj]
    ELSE call.result.status = "RuntimeError"

-----------------------------------------------------------------------------
(* The effects of the merge and of _endpoint on the objects they are given *)

\* The objects the merge works with, by the names the code gives them: "self",
\* the fields of the per-function record; "_GLOBAL_OPTIONS", the fields of the
\* global record; provider_options and global_options, the dicts that
\* dataclasses.asdict builds from them (copies, nested values included); and
\* merged_options, the new dict {**global_options, **provider_options}.
MergeHeap(self, G) ==
  ("self" :> self.f)
  @@ ("_GLOBAL_OPTIONS" :> G.f)
  @@ ("provider_options" :> asdict(self))
  @@ ("global_options" :> asdict(G))
  @@ ("merged_options" :> DictMerge(asdict(G), asdict(self)))

\* target[key] = value
HeapSetItem(heap, target, key, value) ==
  [heap EXCEPT ![target] = (key :> value) @@ @]

\* del target[key]
HeapDelItem(heap, target, key) ==
  [heap EXCEPT ![target] = [k \in DOMAIN @ \ {key} |-> @[k]]]

RECURSIVE fallback_loop(_, _, _)
\* the loop "for key in provider_options" over the keys not yet visited, writing
\* the global value for a None value into the dict target
fallback_loop(heap, target, keys) ==
  IF keys = {}
  THEN heap
  ELSE LET key == CHOOSE k \in keys : TRUE
           written ==
             IF /\ heap["provider_options"][key] = None
                /\ key \in DOMAIN heap["global_options"]
             THEN HeapSetItem(heap, target, key, heap["global_options"][key])
             ELSE heap
       IN fallback_loop(written, target, keys \ {key})

\* the objects as a call leaves them and what the call returns
Effects(self, G, heap, result) ==
  [self |-> [self EXCEPT !.f = heap["self"]],
   global |-> [G EXCEPT !.f = heap["_GLOBAL_OPTIONS"]],
   result |-> result]

\* a merge that writes the global values into the per-function record itself and
\* returns the record's fields
RuntimeOptions_merge_in_place(self, G) ==
  LET heap == fallback_loop(MergeHeap(self, G), "self", DOMAIN asdict(self))
  IN Effects(self, G, heap, heap["self"])

\* RuntimeOptions._asdict_with_global_options: every write goes to merged_options
RuntimeOptions_merge_effects(self, G) ==
  LET heap == fallback_loop(MergeHeap(self, G), "merged_options", DOMAIN asdict(self))
  IN Effects(self, G, heap, heap["merged_options"])

\* HttpsOptions._asdict_with_global_options: del merged_options["cors"] on the
\* dict the base merge returned
HttpsOptions_merge_effects(self, G) ==
  LET heap_of(merged) ==
        ("self" :> merged.self.f)
        @@ ("_GLOBAL_OPTIONS" :> merged.global.f)
        @@ ("merged_options" :> merged.result)
      deleted(heap) ==
        IF "cors" \in DOMAIN heap["merged_options"]
        THEN HeapDelItem(heap, "merged_options", "cors")
        ELSE heap
      returned(heap) == Effects(self, G, heap, heap["merged_options"])
  IN returned(deleted(heap_of(RuntimeOptions_merge_effects(self, G))))

\* self._asdict_with_global_options(), dispatched on the class of self
merge_effects(self, G) ==
  IF self.cls = "HttpsOptions"
  THEN HttpsOptions_merge_effects(self, G)
  ELSE RuntimeOptions_merge_effects(self, G)

\* self._endpoint(**kwargs): when its assertions pass it merges, then builds a new
\* record and a new manifest entry from the merged dict, which it only reads
endpoint_effects(self, kwargs, G) ==
  LET effects_with(result) ==
        IF result.status \in {"KeyError", "AssertionError"}
        THEN [self |-> self, global |-> G, result |-> result]
        ELSE [merge_effects(self, G) EXCEPT !.result = result]
  IN effects_with(options_endpoint(self, kwargs, G))

\* cls(**kwargs): a per-function record is constructed
ConstructRecord(self) ==
  /\ call' = [op |-> "__init__", self |-> self]
  /\ UNCHANGED <<GLOBAL_OPTIONS, last_set_kwargs, funcs, delivery, oncall>>

\* self._asdict_with_global_options() on the record constructed last
MergeRecord ==
  /\ "self" \in DOMAIN call
  /\ \E effects \in {merge_effects(call.self, GLOBAL_OPTIONS)} :
        /\ call' = [op |-> "_asdict_with_global_options",
                    self |-> effects.self,
                    result |-> effects.result]
        /\ GLOBAL_OPTIONS' = effects.global
  /\ UNCHANGED <<last_set_kwargs, funcs, delivery, oncall>>

\* self._endpoint(**kwargs) on the record constructed last
EndpointRecord(kwargs) ==
  /\ "self" \in DOMAIN call
  /\ \E effects \in {endpoint_effects(call.self, kwargs, GLOBAL_OPTIONS)} :
        /\ call' = [op |-> "_endpoint",
                    self |-> effects.self,
                    kwargs |-> kwargs,
                    result |-> effects.result]
        /\ GLOBAL_OPTIONS' = effects.global
  /\ UNCHANGED <<last_set_kwargs, funcs, delivery, oncall>>

NextFrame ==
  \/ \E kwargs \in GlobalKwargs : SetGlobalOptions(kwargs)
  \/ \E self \in OptionRecords : ConstructRecord(self)
  \/ MergeRecord
  \/ \E kwargs \in EndpointKwargs : EndpointRecord(kwargs)

SpecFrame == Init /\ [][NextFrame]_vars

\* C11: a call of _asdict_with_global_options or of _endpoint, on any record and
\* after any calls before it, leaves the per-function record and the global
\* record with the field values they had (and the merge returns the merged
\* fields); the global record changes only in a set_global_options call.
C11_MergeAndEndpointLeaveInputs ==
  [][/\ call'.op \in {"_asdict_with_global_options", "_endpoint"} =>
          /\ call'.self = call.self
          /\ GLOBAL_OPTIONS' = GLOBAL_OPTIONS
     /\ call'.op = "_asdict_with_global_options" =>
          call'.result = asdict_with_global_options(call.self, GLOBAL_OPTIONS)
     /\ GLOBAL_OPTIONS' # GLOBAL_OPTIONS => call'.op = "set_global_options"]_vars

\* C11 witness: an entry built, after set_global_options, for a record that
\* leaves unset a field the global record sets: the entry has the global value,
\* the record still has none
C11_Witness ==
  /\ call.op = "_endpoint"
  /\ call.result.status = "ok"
  /\ call.self.cls = "HttpsOptions"
  /\ call.self.f["memory"] = None
  /\ GLOBAL_OPTIONS.f["memory"] = PyInt(512)
  /\ call.result.endpoint.availableMemoryMb = PyInt(512)

====
